---- MODULE Spec2Model ----
(***************************************************************************)
(* inbox/server/models/namespace.py: the per-namespace datastore write     *)
(* lock and the folder-membership operations archive_thread, move_thread,  *)
(* copy_thread and delete_thread, run by concurrent callers, each with its *)
(* own SQLAlchemy session, against one shared store of FolderItem rows.    *)
(*                                                                         *)
(* The store keeps the committed rows.  A session keeps its unit of work:  *)
(* the rows it deleted, added or renamed since its last commit.  A query   *)
(* flushes first (autoflush), so a session's queries see the committed     *)
(* rows without the rows it has itself deleted; commit() writes the unit   *)
(* of work to the store.  An exception leaves the unit of work as it is.   *)
(***************************************************************************)
EXTENDS Integers, FiniteSets, Sequences, TLC

\* ------------------------------------------------------------------ bounds
\* The largest FolderItem primary key the store hands out: with concurrent
\* callers of any namespace (Spec), with concurrent callers of one namespace
\* (SpecOneNs), and with callers that take turns (SpecSeq).
MaxId == 2
MaxIdOneNs == 3
MaxIdSeq == 4
\* ... and with concurrent callers that never call copy_thread, on a store
\* that starts with up to one row per (thread, folder) (SpecNoCopy).
MaxIdNoCopy == 5
\* ... and with callers that take turns in the four functions and call
\* threads_for_folder at any time in between (SpecRead).
MaxIdRead == 3
\* ... and with concurrent callers under fair scheduling (FairSpec).
MaxIdFair == 1

\* ------------------------------------------------------------- the universe
Procs == {"p1", "p2"}
Namespaces == {"A", "B"}
Threads == {"tA", "tB"}
Folders == {"inbox", "archive"}
Free == "free"
NoCall == [op |-> "none", ns |-> "-", thread |-> "-", from |-> "-", to |-> "-"]
NoneFound == [by |-> "-", ns |-> "-", folder |-> "-", threads |-> {}]

\* Thread.namespace_id: every thread is owned by exactly one namespace.
ThreadNs(t) == IF t = "tA" THEN "A" ELSE "B"

VARIABLES
    rows,      \* the committed FolderItem rows: records [id, thread, folder]
    nextId,    \* the next primary key of FolderItem
    lock,      \* lock file name -> the process holding it, or Free
    pc,        \* each caller's position
    call,      \* each caller's current call (function and arguments)
    sess,      \* each caller's session: its uncommitted unit of work
    local,     \* ids of the rows the current call holds in inbox_item / item
    outcome,   \* how the body of each caller's current call ended
    commits,   \* session.commit() calls of each caller's current call so far
    found      \* the last threads_for_folder call and what it returned

vars == <<rows, nextId, lock, pc, call, sess, local, outcome, commits, found>>

\* ------------------------------------------------------------------ lock
\* _db_write_lockfile_name(account_id): the format string with the id in it.
_db_write_lockfile_nameMutOneFile(account_id) ==
    <<"/var/lock/inbox_datastore/", "0", ".lock">>
_db_write_lockfile_name(account_id) ==
    <<"/var/lock/inbox_datastore/", account_id, ".lock">>

LockFiles == {_db_write_lockfile_name(n) : n \in Namespaces}

\* db_write_lock(namespace_id): the Lock on the namespace's lock file.
db_write_lock(namespace_id) == _db_write_lockfile_name(namespace_id)

\* Lock(name, block=True).__enter__: returns only when nobody holds the file.
LockBlock(name) == lock[name] = Free

\* ------------------------------------------------------------- the session
EmptySession == [del |-> {}, add |-> {}, ren |-> {}]

\* The rows a session with pending deletes D sees in committed rows R.
Visible(R, D) == {r \in R : r.id \notin D}

\* session.query(FolderItem).join(Thread).filter(Thread.namespace_id == ns,
\*     FolderItem.thread_id == t, FolderItem.folder_name in fs)
Query(R, D, ns, t, fs) ==
    {r \in Visible(R, D) : ThreadNs(r.thread) = ns /\ r.thread = t /\ r.folder \in fs}

\* Query.one(): the exception it raises, or "ok" with exactly one row.
One(S) ==
    IF S = {} THEN "NoResultFound"
    ELSE IF Cardinality(S) > 1 THEN "MultipleResultsFound"
    ELSE "ok"

Ids(S) == {r.id : r \in S}

\* The new rows of a unit of work, numbered from n (at most one per call).
NewRows(A, n) == {[id |-> n, thread |-> a.thread, folder |-> a.folder] : a \in A}

\* session.commit(): the store after the unit of work s is written to it.
Committed(R, s, n) ==
    {[id |-> r.id, thread |-> r.thread,
      folder |-> IF \E x \in s.ren : x.id = r.id
                 THEN (CHOOSE x \in s.ren : x.id = r.id).folder
                 ELSE r.folder] : r \in Visible(R, s.del)}
    \cup NewRows(s.add, n)

\* ------------------------------------------------- what each function decides
\* archive_thread, first try block: the one 'inbox' item is deleted;
\* NoResultFound is passed over.
InboxDeletesMutNone(S) == {}
InboxDeletes(S) == IF One(S) = "ok" THEN Ids(S) ELSE {}

\* archive_thread, second try block: on NoResultFound a FolderItem of
\* thread_id in 'archive' is added.
ArchiveAddsMutAlways(S, thread_id) == {[thread |-> thread_id, folder |-> "archive"]}
ArchiveAdds(S, thread_id) ==
    IF One(S) = "NoResultFound"
    THEN {[thread |-> thread_id, folder |-> "archive"]}
    ELSE {}

\* move_thread: `to_folder not in listings`, then `listings[from_folder]`.
MoveDecision(L, c) ==
    IF \E r \in L : r.folder = c.to THEN "noop"
    ELSE IF \E r \in L : r.folder = c.from THEN "rename"
    ELSE "KeyError"

\* move_thread: listings[from_folder].folder_name = to_folder.  The dict
\* keeps one row per folder name: of several rows of from_folder, the last
\* the query returned, whichever that is.
MoveRenames(L, c) == {[id |-> r.id, folder |-> c.to] : r \in {x \in L : x.folder = c.from}}

\* copy_thread: FolderItem(thread=existing.thread, folder_name=to_folder).
CopyAdds(S, c) == {[thread |-> r.thread, folder |-> c.to] : r \in S}

\* ------------------------------------------------------------------ calls
\* The calls a caller can make with a namespace id of NS: any thread id and
\* any folder names (delete_thread's folder_name is the field `from`).
Calls(NS) ==
    [op : {"archive_thread"}, ns : NS, thread : Threads, from : {"-"}, to : {"-"}]
    \cup [op : {"move_thread", "copy_thread"}, ns : NS, thread : Threads,
          from : Folders, to : Folders]
    \cup [op : {"delete_thread"}, ns : NS, thread : Threads, from : Folders, to : {"-"}]

\* archive_thread and copy_thread can add a row, and the store has `cap`
\* keys: a call that would add a row is made only while a key is left for it
\* and for every call that is running and can add one.
Creates(c) == c.op \in {"archive_thread", "copy_thread"}
InBody(q) == pc[q] \in {"body", "archive", "commit", "exit"}
WouldAdd(p, c) ==
    \/ c.op = "archive_thread"
          /\ Query(rows, sess[p].del, c.ns, c.thread, {"archive"}) = {}
    \/ c.op = "copy_thread"
          /\ One(Query(rows, sess[p].del, c.ns, c.thread, {c.from})) = "ok"
KeysLeft(cap) ==
    cap + 1 - nextId - Cardinality({q \in Procs : InBody(q) /\ Creates(call[q])})

\* The rows the current call holds in inbox_item / item are part of
\* sess[p].del; the rest of sess[p].del was left by earlier calls that raised.
LeftOver(p) == sess[p].del \ local[p]

\* `with db_write_lock(namespace_id):` in each of the four functions.
WithLock(p) == db_write_lock(call[p].ns)

\* A caller calls one of the four functions with namespace id n and reaches
\* its `with` statement.  Nothing reads the other arguments before the body
\* runs, so they are drawn when the body is entered.
Call(p, NS) ==
    /\ pc[p] = "idle"
    /\ \E n \in NS : call' = [call EXCEPT ![p] = [NoCall EXCEPT !.ns = n]]
    /\ pc' = [pc EXCEPT ![p] = "with"]
    /\ UNCHANGED <<rows, nextId, lock, sess, local, outcome, commits, found>>

\* The body is entered with its arguments.
Enter(p, cap) ==
    /\ \E c \in Calls({call[p].ns}) :
        /\ WouldAdd(p, c) => KeysLeft(cap) > 0
        /\ call' = [call EXCEPT ![p] = c]
    /\ pc' = [pc EXCEPT ![p] = "body"]
    /\ UNCHANGED <<rows, nextId, sess, local, outcome, commits, found>>

\* Lock.__enter__ (block=True): waits until the lock file is free, takes it.
AcquireMutNoWait(p, cap) ==
    /\ pc[p] = "with"
    /\ lock' = [lock EXCEPT ![WithLock(p)] = p]
    /\ Enter(p, cap)
Acquire(p, cap) ==
    /\ pc[p] = "with"
    /\ LockBlock(WithLock(p))
    /\ lock' = [lock EXCEPT ![WithLock(p)] = p]
    /\ Enter(p, cap)

\* An exception e leaves the body: nothing is committed or rolled back.
Raise(p, e) ==
    /\ outcome' = [outcome EXCEPT ![p] = e]
    /\ pc' = [pc EXCEPT ![p] = "exit"]

\* archive_thread, first try block: the 'inbox' item is deleted if there is
\* one; NoResultFound is passed over, MultipleResultsFound is not caught.
ArchiveInbox(p) ==
    /\ pc[p] = "body" /\ call[p].op = "archive_thread"
    /\ LET S == Query(rows, sess[p].del, call[p].ns, call[p].thread, {"inbox"})
       IN  IF One(S) = "MultipleResultsFound"
           THEN /\ Raise(p, One(S))
                /\ UNCHANGED <<sess, local>>
           ELSE /\ sess' = [sess EXCEPT ![p].del = @ \cup InboxDeletes(S)]
                /\ local' = [local EXCEPT ![p] = InboxDeletes(S)]
                /\ pc' = [pc EXCEPT ![p] = "archive"]
                /\ UNCHANGED outcome
    /\ UNCHANGED <<rows, nextId, lock, call, commits, found>>

\* archive_thread, second try block: the 'archive' item is created if there
\* is none; MultipleResultsFound is not caught.
ArchiveArchiveMutCommitIfDirty(p) ==
    /\ pc[p] = "archive"
    /\ LET S == Query(rows, sess[p].del, call[p].ns, call[p].thread, {"archive"})
       IN  IF One(S) = "MultipleResultsFound"
           THEN /\ Raise(p, One(S))
                /\ UNCHANGED sess
           ELSE /\ sess' = [sess EXCEPT ![p].add = @ \cup ArchiveAdds(S, call[p].thread)]
                /\ IF ArchiveAdds(S, call[p].thread) = {} /\ local[p] = {}
                   THEN /\ pc' = [pc EXCEPT ![p] = "exit"]
                        /\ outcome' = [outcome EXCEPT ![p] = "ok"]
                   ELSE /\ pc' = [pc EXCEPT ![p] = "commit"]
                        /\ UNCHANGED outcome
    /\ UNCHANGED <<rows, nextId, lock, call, local, commits, found>>
ArchiveArchive(p) ==
    /\ pc[p] = "archive"
    /\ LET S == Query(rows, sess[p].del, call[p].ns, call[p].thread, {"archive"})
       IN  IF One(S) = "MultipleResultsFound"
           THEN /\ Raise(p, One(S))
                /\ UNCHANGED sess
           ELSE /\ sess' = [sess EXCEPT ![p].add = @ \cup ArchiveAdds(S, call[p].thread)]
                /\ pc' = [pc EXCEPT ![p] = "commit"]
                /\ UNCHANGED outcome
    /\ UNCHANGED <<rows, nextId, lock, call, local, commits, found>>

\* move_thread: the listings by folder name, then the rename and the commit
\* unless to_folder is listed already; no commit when it is.
MoveBody(p) ==
    /\ pc[p] = "body" /\ call[p].op = "move_thread"
    /\ LET c == call[p]
           L == Query(rows, sess[p].del, c.ns, c.thread, {c.from, c.to})
       IN  CASE MoveDecision(L, c) = "noop" ->
                    /\ outcome' = [outcome EXCEPT ![p] = "ok"]
                    /\ pc' = [pc EXCEPT ![p] = "exit"]
                    /\ UNCHANGED sess
             [] MoveDecision(L, c) = "KeyError" ->
                    /\ Raise(p, "KeyError")
                    /\ UNCHANGED sess
             [] OTHER ->
                    /\ \E x \in MoveRenames(L, c) :
                         sess' = [sess EXCEPT ![p].ren = @ \cup {x}]
                    /\ pc' = [pc EXCEPT ![p] = "commit"]
                    /\ UNCHANGED outcome
    /\ UNCHANGED <<rows, nextId, call, local, commits, found>>

MoveListingsMutCommitOutsideWith(p) ==
    /\ MoveBody(p)
    /\ lock' = IF pc'[p] = "commit" THEN [lock EXCEPT ![WithLock(p)] = Free] ELSE lock
MoveListings(p) ==
    /\ MoveBody(p)
    /\ UNCHANGED lock

\* copy_thread: the one from_folder item, and a new item for its thread.
CopyExisting(p) ==
    /\ pc[p] = "body" /\ call[p].op = "copy_thread"
    /\ LET c == call[p]
           S == Query(rows, sess[p].del, c.ns, c.thread, {c.from})
       IN  IF One(S) = "ok"
           THEN /\ sess' = [sess EXCEPT ![p].add = @ \cup CopyAdds(S, c)]
                /\ pc' = [pc EXCEPT ![p] = "commit"]
                /\ UNCHANGED outcome
           ELSE /\ Raise(p, One(S))
                /\ UNCHANGED sess
    /\ UNCHANGED <<rows, nextId, lock, call, local, commits, found>>

\* delete_thread: the one item of folder_name, deleted.
DeleteItemMutNoCommit(p) ==
    /\ pc[p] = "body" /\ call[p].op = "delete_thread"
    /\ LET c == call[p]
           S == Query(rows, sess[p].del, c.ns, c.thread, {c.from})
       IN  IF One(S) = "ok"
           THEN /\ sess' = [sess EXCEPT ![p].del = @ \cup Ids(S)]
                /\ local' = [local EXCEPT ![p] = Ids(S)]
                /\ pc' = [pc EXCEPT ![p] = "exit"]
                /\ outcome' = [outcome EXCEPT ![p] = "ok"]
           ELSE /\ Raise(p, One(S))
                /\ UNCHANGED <<sess, local>>
    /\ UNCHANGED <<rows, nextId, lock, call, commits, found>>
DeleteItem(p) ==
    /\ pc[p] = "body" /\ call[p].op = "delete_thread"
    /\ LET c == call[p]
           S == Query(rows, sess[p].del, c.ns, c.thread, {c.from})
       IN  IF One(S) = "ok"
           THEN /\ sess' = [sess EXCEPT ![p].del = @ \cup Ids(S)]
                /\ local' = [local EXCEPT ![p] = Ids(S)]
                /\ pc' = [pc EXCEPT ![p] = "commit"]
                /\ UNCHANGED outcome
           ELSE /\ Raise(p, One(S))
                /\ UNCHANGED <<sess, local>>
    /\ UNCHANGED <<rows, nextId, lock, call, commits, found>>

\* session.commit(): the whole unit of work of the session reaches the store.
Commit(p) ==
    /\ pc[p] = "commit"
    /\ rows' = Committed(rows, sess[p], nextId)
    /\ nextId' = nextId + Cardinality(sess[p].add)
    /\ sess' = [sess EXCEPT ![p] = EmptySession]
    /\ outcome' = [outcome EXCEPT ![p] = "ok"]
    /\ commits' = [commits EXCEPT ![p] = @ + 1]
    /\ pc' = [pc EXCEPT ![p] = "exit"]
    /\ UNCHANGED <<lock, call, local, found>>

\* The function is left: its arguments and locals are gone, and its result
\* (None, or the exception) reaches the caller.
Leave(p) ==
    /\ pc' = [pc EXCEPT ![p] = "done"]
    /\ call' = [call EXCEPT ![p] = [NoCall EXCEPT !.ns = call[p].ns]]
    /\ local' = [local EXCEPT ![p] = {}]
    /\ commits' = [commits EXCEPT ![p] = 0]
    /\ UNCHANGED <<rows, nextId, sess, outcome, found>>

\* Lock.__exit__: the end of the `with` block, by return or by exception.
ReleaseMutNever(p) ==
    /\ pc[p] = "exit"
    /\ UNCHANGED lock
    /\ Leave(p)
ReleaseMutNotOnRaise(p) ==
    /\ pc[p] = "exit"
    /\ lock' = IF outcome[p] = "ok" THEN [lock EXCEPT ![WithLock(p)] = Free] ELSE lock
    /\ Leave(p)
Release(p) ==
    /\ pc[p] = "exit"
    /\ lock' = [lock EXCEPT ![WithLock(p)] = Free]
    /\ Leave(p)

\* The caller goes on with the result of its call.
Return(p) ==
    /\ pc[p] = "done"
    /\ pc' = [pc EXCEPT ![p] = "idle"]
    /\ call' = [call EXCEPT ![p] = NoCall]
    /\ outcome' = [outcome EXCEPT ![p] = "none"]
    /\ UNCHANGED <<rows, nextId, lock, sess, local, commits, found>>

\* threads_for_folder(namespace_id, session, folder_name): the threads of
\* the namespace joined to a FolderItem of that folder name, as the session
\* with pending deletes D sees the rows R.
threads_for_folder(R, D, namespace_id, folder_name) ==
    {r.thread : r \in {x \in Visible(R, D) : /\ ThreadNs(x.thread) = namespace_id
                                             /\ x.folder = folder_name}}

\* A caller that is in none of the four functions calls threads_for_folder
\* with its session and reads the query it returns: no `with`, no commit.
ThreadsForFolder(p) ==
    /\ pc[p] = "idle"
    /\ \E n \in Namespaces, f \in Folders :
          found' = [by |-> p, ns |-> n, folder |-> f,
                    threads |-> threads_for_folder(rows, sess[p].del, n, f)]
    /\ UNCHANGED <<rows, nextId, lock, pc, call, sess, local, outcome, commits>>

\* ------------------------------------------------ a call run by itself
\* What call c does to committed rows R when it runs from start to end with
\* no step of another caller in between, in a session with pending deletes D
\* and next key n: the possible [rows, del, out] it ends with.
Atomic(R, D, c, n) ==
    CASE c.op = "archive_thread" ->
            LET S1 == Query(R, D, c.ns, c.thread, {"inbox"})
                D1 == D \cup InboxDeletes(S1)
                S2 == Query(R, D1, c.ns, c.thread, {"archive"})
            IN  IF One(S1) = "MultipleResultsFound"
                THEN {[rows |-> R, del |-> D, out |-> One(S1)]}
                ELSE IF One(S2) = "MultipleResultsFound"
                THEN {[rows |-> R, del |-> D1, out |-> One(S2)]}
                ELSE {[rows |-> Committed(R, [del |-> D1,
                                              add |-> ArchiveAdds(S2, c.thread),
                                              ren |-> {}], n),
                       del |-> {}, out |-> "ok"]}
      [] c.op = "move_thread" ->
            LET L == Query(R, D, c.ns, c.thread, {c.from, c.to})
            IN  CASE MoveDecision(L, c) = "noop" ->
                        {[rows |-> R, del |-> D, out |-> "ok"]}
                  [] MoveDecision(L, c) = "KeyError" ->
                        {[rows |-> R, del |-> D, out |-> "KeyError"]}
                  [] OTHER ->
                        {[rows |-> Committed(R, [del |-> D, add |-> {}, ren |-> {x}], n),
                          del |-> {}, out |-> "ok"] : x \in MoveRenames(L, c)}
      [] c.op = "copy_thread" ->
            LET S == Query(R, D, c.ns, c.thread, {c.from})
            IN  IF One(S) = "ok"
                THEN {[rows |-> Committed(R, [del |-> D, add |-> CopyAdds(S, c),
                                              ren |-> {}], n),
                       del |-> {}, out |-> "ok"]}
                ELSE {[rows |-> R, del |-> D, out |-> One(S)]}
      [] c.op = "delete_thread" ->
            LET S == Query(R, D, c.ns, c.thread, {c.from})
            IN  IF One(S) = "ok"
                THEN {[rows |-> Committed(R, [del |-> D \cup Ids(S), add |-> {},
                                              ren |-> {}], n),
                       del |-> {}, out |-> "ok"]}
                ELSE {[rows |-> R, del |-> D, out |-> One(S)]}

\* ------------------------------------------------------- specifications
Init ==
    /\ rows = {}
    /\ nextId = 1
    /\ lock = [f \in LockFiles |-> Free]
    /\ pc = [p \in Procs |-> "idle"]
    /\ call = [p \in Procs |-> NoCall]
    /\ sess = [p \in Procs |-> EmptySession]
    /\ local = [p \in Procs |-> {}]
    /\ outcome = [p \in Procs |-> "none"]
    /\ commits = [p \in Procs |-> 0]
    /\ found = NoneFound

Step(p, cap) ==
    \/ Acquire(p, cap)
    \/ ArchiveInbox(p)
    \/ ArchiveArchive(p)
    \/ MoveListings(p)
    \/ CopyExisting(p)
    \/ DeleteItem(p)
    \/ Commit(p)
    \/ Release(p)
    \/ Return(p)

\* Concurrent callers, any namespace ids.
Next == \E p \in Procs : Call(p, Namespaces) \/ Step(p, MaxId)
Spec == Init /\ [][Next]_vars

\* Concurrent callers that all call with the same namespace id.
NextOneNs == \E p \in Procs : Call(p, {"A"}) \/ Step(p, MaxIdOneNs)
SpecOneNs == Init /\ [][NextOneNs]_vars

\* Callers that take turns: a call starts when no other call is running.
CallAlone(p) ==
    /\ \A q \in Procs : pc[q] = "idle"
    /\ Call(p, Namespaces)
NextSeq == \E p \in Procs : CallAlone(p) \/ Step(p, MaxIdSeq)
SpecSeq == Init /\ [][NextSeq]_vars

\* Concurrent callers of archive_thread, move_thread and delete_thread only,
\* on a store that starts with any rows with at most one per (thread,
\* folder): the row of thread t in folder f, if there, has the key PairId.
PairId(t, f) == (IF t = "tA" THEN 0 ELSE 2) + (IF f = "inbox" THEN 1 ELSE 2)
UniqueStores ==
    {{[id |-> PairId(x[1], x[2]), thread |-> x[1], folder |-> x[2]] : x \in S} :
        S \in SUBSET (Threads \X Folders)}
InitNoCopy ==
    /\ rows \in UniqueStores
    /\ nextId = Cardinality(Threads \X Folders) + 1
    /\ lock = [f \in LockFiles |-> Free]
    /\ pc = [p \in Procs |-> "idle"]
    /\ call = [p \in Procs |-> NoCall]
    /\ sess = [p \in Procs |-> EmptySession]
    /\ local = [p \in Procs |-> {}]
    /\ outcome = [p \in Procs |-> "none"]
    /\ commits = [p \in Procs |-> 0]
    /\ found = NoneFound
AcquireNoCopy(p, cap) ==
    /\ Acquire(p, cap)
    /\ call'[p].op # "copy_thread"
NextNoCopy ==
    \E p \in Procs :
        \/ Call(p, Namespaces)
        \/ AcquireNoCopy(p, MaxIdNoCopy)
        \/ ArchiveInbox(p)
        \/ ArchiveArchive(p)
        \/ MoveListings(p)
        \/ DeleteItem(p)
        \/ Commit(p)
        \/ Release(p)
        \/ Return(p)
SpecNoCopy == InitNoCopy /\ [][NextNoCopy]_vars

\* Callers that take turns in the four functions; a caller that is in none
\* of them can call threads_for_folder at any time, also while the other
\* caller is inside a with block.
NextRead ==
    \E p \in Procs : CallAlone(p) \/ Step(p, MaxIdRead) \/ ThreadsForFolder(p)
SpecRead == Init /\ [][NextRead]_vars

\* Concurrent callers under fair scheduling: a caller that is inside one of
\* the four functions and can take its next step does take it; nobody has
\* to make a call.  A caller blocked in Lock.__enter__ can take its step
\* only while the lock file is free, and Lock promises no order among the
\* callers that wait for it or come for it.
NextFair == \E p \in Procs : Call(p, Namespaces) \/ Step(p, MaxIdFair)
FairSpec ==
    /\ Init /\ [][NextFair]_vars
    /\ \A p \in Procs : WF_vars(Step(p, MaxIdFair))

\* ------------------------------------------------------------ the claims
\* The FolderItems of thread t in folder f among rows R.
ItemsIn(R, t, f) == {r \in R : r.thread = t /\ r.folder = f}

\* The call of p is for a thread of the namespace it names.
OwnThread(p) == ThreadNs(call[p].thread) = call[p].ns

\* This step is a step of p's call.
StepOf(p) == pc'[p] # pc[p]

\* This step ends the body of p's call: its commit, its no-op or its exception.
Ends(p) == pc[p] \in {"body", "archive", "commit"} /\ pc'[p] = "exit"

\* C1: for each namespace id, at most one call of the four functions is
\* between taking db_write_lock(namespace_id) and releasing it.
MutualExclusion ==
    \A n \in Namespaces : Cardinality({p \in Procs : InBody(p) /\ call[p].ns = n}) <= 1

\* One caller is about to commit while another waits for the same lock.
MutualExclusionWitness ==
    \E p, q \in Procs :
        /\ pc[p] = "commit" /\ pc[q] = "with"
        /\ call[q].ns = call[p].ns
        /\ lock[WithLock(p)] = p

\* C2: with concurrent calls on one namespace, every call ends with the
\* committed rows, the session and the outcome that the same call gives when
\* it runs alone, from start to end, at the step where it ends: the calls
\* are as if run one after another, in the order in which they end, and none
\* writes what it decided on rows that changed since it read them.
Serializable ==
    [][\A p \in Procs :
          Ends(p) =>
              [rows |-> rows', del |-> sess'[p].del, out |-> outcome'[p]]
                  \in Atomic(rows, LeftOver(p), call[p], nextId)]_vars

\* A move_thread has renamed its row while a second call on the namespace,
\* made meanwhile, waits at its `with`.
SerializableWitness ==
    \E p, q \in Procs :
        /\ pc[p] = "exit" /\ call[p].op = "move_thread" /\ outcome[p] = "ok"
        /\ call[p].from # call[p].to
        /\ ItemsIn(rows, call[p].thread, call[p].to) # {}
        /\ ItemsIn(rows, call[p].thread, call[p].from) = {}
        /\ pc[q] = "with" /\ call[q].ns = call[p].ns

\* C3: a call reads, writes and commits only while it holds its namespace's
\* lock, the store changes only by the commit of a call that holds its lock,
\* and the lock is given up only once the body has ended, with nothing that
\* a call which did not fail has written still uncommitted.
ProtocolOrdering ==
    [][/\ \A p \in Procs :
            /\ (pc[p] \in {"body", "archive", "commit"} /\ StepOf(p))
                  => (lock[WithLock(p)] = p /\ lock'[WithLock(p)] = p)
            /\ \A f \in LockFiles :
                  (lock[f] = p /\ lock'[f] # p)
                      => /\ pc[p] = "exit" /\ pc'[p] = "done" /\ outcome[p] # "none"
                         /\ outcome[p] = "ok"
                              => /\ sess[p].add = {} /\ sess[p].ren = {}
                                 /\ sess[p].del \cap local[p] = {}
       /\ rows' # rows
            => \E p \in Procs : pc[p] = "commit" /\ StepOf(p) /\ lock[WithLock(p)] = p
      ]_vars

\* A delete_thread has committed its delete and still holds the lock.
ProtocolOrderingWitness ==
    \E p \in Procs :
        /\ pc[p] = "exit" /\ outcome[p] = "ok" /\ call[p].op = "delete_thread"
        /\ lock[WithLock(p)] = p
        /\ local[p] # {} /\ Ids(rows) \cap local[p] = {}

\* C4: when the body of a call has ended, by its commit, by the no-op return
\* or by an exception, the next step of the call frees its lock file, and a
\* caller whose call has finished, or that is in no call, holds no lock.
GuaranteedRelease ==
    [][\A p \in Procs :
          /\ (pc[p] = "exit" /\ StepOf(p))
                => (pc'[p] = "done" /\ lock'[WithLock(p)] = Free)
          /\ pc'[p] \in {"done", "idle", "with"}
                => \A f \in LockFiles : lock'[f] # p]_vars

\* A move_thread that found neither folder's item has raised and finished,
\* and the caller that waited for its lock is in the body.
GuaranteedReleaseWitness ==
    \E p, q \in Procs :
        /\ pc[p] = "done" /\ outcome[p] = "KeyError"
        /\ pc[q] = "body" /\ call[q].ns = call[p].ns
        /\ lock[WithLock(p)] = q

\* C5: a call with namespace id n never changes a FolderItem whose thread
\* belongs to another namespace, whatever thread id it is given.
NamespaceIsolation ==
    [][\A p \in Procs :
          (pc[p] = "commit" /\ StepOf(p))
              => {r \in rows' : ThreadNs(r.thread) # call[p].ns}
                   = {r \in rows : ThreadNs(r.thread) # call[p].ns}]_vars

\* At most one FolderItem of thread t in each folder.
OnePerFolder(R, t) == \A f \in Folders : Cardinality(ItemsIn(R, t, f)) <= 1

\* C6: an archive_thread for a thread of the namespace that has at most one
\* FolderItem per folder ends without error, with exactly one 'archive' item
\* of the thread and no 'inbox' item of it in the store.
ArchiveConvergence ==
    [][\A p \in Procs :
          (/\ Ends(p) /\ call[p].op = "archive_thread" /\ OwnThread(p)
           /\ OnePerFolder(rows, call[p].thread))
              => /\ outcome'[p] = "ok"
                 /\ Cardinality(ItemsIn(rows', call[p].thread, "archive")) = 1
                 /\ ItemsIn(rows', call[p].thread, "inbox") = {}]_vars

\* An archive_thread of a thread that was in 'inbox' only has committed: it
\* deleted the inbox item it found and the newest row is the archive item.
ArchiveConvergenceWitness ==
    \E p \in Procs :
        /\ pc[p] = "exit" /\ call[p].op = "archive_thread" /\ OwnThread(p)
        /\ outcome[p] = "ok" /\ local[p] # {}
        /\ Ids(rows) \cap local[p] = {}
        /\ \E r \in ItemsIn(rows, call[p].thread, "archive") : r.id = nextId - 1
        /\ OnePerFolder(rows, call[p].thread)

\* archive_thread(ThreadNs(t), session of p, t).
ArchiveCall(t) ==
    [op |-> "archive_thread", ns |-> ThreadNs(t), thread |-> t, from |-> "-", to |-> "-"]

\* Between calls: archive_thread of thread t, run twice in a row in p's
\* session, does not fail the second time, adds no row the second time, and
\* leaves the thread's FolderItems as the first run left them.
ArchiveTwice(p, t) ==
    \A r1 \in Atomic(rows, sess[p].del, ArchiveCall(t), nextId) :
        \A r2 \in Atomic(r1.rows, r1.del, ArchiveCall(t),
                         nextId + Cardinality(Ids(r1.rows) \ Ids(rows))) :
            /\ r2.out = "ok"
            /\ Ids(r2.rows) \subseteq Ids(r1.rows)
            /\ {x \in r2.rows : x.thread = t} = {x \in r1.rows : x.thread = t}

NoCallRunning == \A q \in Procs : pc[q] = "idle"

\* C7 as stated: from any state of a thread, a second archive_thread in a
\* row does not fail, adds no second 'archive' item and changes nothing.
ArchiveIdempotentAnyState ==
    NoCallRunning => \A p \in Procs : \A t \in Threads : ArchiveTwice(p, t)

\* C7 amended: the same, from any state in which the thread has at most one
\* 'inbox' item and at most one 'archive' item.
ArchiveIdempotent ==
    NoCallRunning =>
        \A p \in Procs : \A t \in Threads :
            OnePerFolder(rows, t) => ArchiveTwice(p, t)

\* No call is running and a thread is in 'inbox' and not in 'archive': the
\* first of the two runs deletes one row and adds one.
ArchiveIdempotentWitness ==
    /\ NoCallRunning
    /\ \E p \in Procs : \E t \in Threads :
        /\ OnePerFolder(rows, t)
        /\ ItemsIn(rows, t, "inbox") # {} /\ ItemsIn(rows, t, "archive") = {}
        /\ \E r1 \in Atomic(rows, sess[p].del, ArchiveCall(t), nextId) :
              /\ r1.out = "ok"
              /\ ItemsIn(r1.rows, t, "inbox") = {}
              /\ Cardinality(ItemsIn(r1.rows, t, "archive")) = 1

\* C8: a move_thread for a thread of the namespace that has a FolderItem in
\* to_folder ends without error and leaves the store as it was.
MoveNonDuplication ==
    [][\A p \in Procs :
          (/\ Ends(p) /\ call[p].op = "move_thread" /\ OwnThread(p)
           /\ ItemsIn(rows, call[p].thread, call[p].to) # {})
              => (outcome'[p] = "ok" /\ rows' = rows)]_vars

\* C9: a move_thread for a thread of the namespace that has exactly one
\* FolderItem in from_folder and none in to_folder ends without error, with
\* that same row in to_folder, no row of the thread in from_folder, and as
\* many rows in the store as before.
MoveRelocation ==
    [][\A p \in Procs :
          (/\ Ends(p) /\ call[p].op = "move_thread" /\ OwnThread(p)
           /\ Cardinality(ItemsIn(rows, call[p].thread, call[p].from)) = 1
           /\ ItemsIn(rows, call[p].thread, call[p].to) = {})
              => /\ outcome'[p] = "ok"
                 /\ ItemsIn(rows', call[p].thread, call[p].from) = {}
                 /\ Ids(ItemsIn(rows', call[p].thread, call[p].to))
                      = Ids(ItemsIn(rows, call[p].thread, call[p].from))
                 /\ Cardinality(rows') = Cardinality(rows)]_vars

\* C10: a move_thread for a thread with no FolderItem in from_folder and
\* none in to_folder raises NoResultFound, the exception copy_thread and
\* delete_thread raise for a missing item, and leaves the store as it was.
MoveNotFound ==
    [][\A p \in Procs :
          (/\ Ends(p) /\ call[p].op = "move_thread"
           /\ ItemsIn(rows, call[p].thread, call[p].from) = {}
           /\ ItemsIn(rows, call[p].thread, call[p].to) = {})
              => (outcome'[p] = "NoResultFound" /\ rows' = rows)]_vars

\* delete_thread(ThreadNs(t), session of p, t, f).
DeleteCall(t, f) ==
    [op |-> "delete_thread", ns |-> ThreadNs(t), thread |-> t, from |-> f, to |-> "-"]

\* copy_thread(ThreadNs(t), session of p, t, f, g).
CopyCall(t, f, g) ==
    [op |-> "copy_thread", ns |-> ThreadNs(t), thread |-> t, from |-> f, to |-> g]

\* C11: between calls, when a thread of the namespace has exactly one
\* FolderItem in folder_name, delete_thread run twice in a row in p's session
\* succeeds the first time, removing that item and nothing else, and raises
\* NoResultFound the second time, changing nothing.
DeleteNonIdempotence ==
    NoCallRunning =>
        \A p \in Procs : \A t \in Threads : \A f \in Folders :
            Cardinality(ItemsIn(rows, t, f)) = 1 =>
                \A r1 \in Atomic(rows, sess[p].del, DeleteCall(t, f), nextId) :
                    /\ r1.out = "ok"
                    /\ r1.rows = rows \ ItemsIn(rows, t, f)
                    /\ \A r2 \in Atomic(r1.rows, r1.del, DeleteCall(t, f), nextId) :
                          r2.out = "NoResultFound" /\ r2.rows = r1.rows

NoOpMove(p) ==
    /\ pc[p] = "body" /\ call[p].op = "move_thread"
    /\ MoveDecision(Query(rows, sess[p].del, call[p].ns, call[p].thread,
                          {call[p].from, call[p].to}), call[p]) = "noop"

\* C13 as stated: every call of the four functions that returns normally
\* has committed exactly once when its body ends, move_thread with an item
\* in to_folder included.
ExactlyOneCommitAlways ==
    [][\A p \in Procs : (Ends(p) /\ outcome'[p] = "ok") => commits'[p] = 1]_vars

\* C13 amended: a call that returns normally has committed exactly once
\* when its body ends, except a move_thread that finds an item in to_folder,
\* which has not committed at all; no call commits more than once, and none
\* commits between the end of its body and the release of the lock.
ExactlyOneCommit ==
    [][\A p \in Procs :
          /\ (Ends(p) /\ outcome'[p] = "ok")
                => commits'[p] = IF NoOpMove(p) THEN 0 ELSE 1
          /\ commits'[p] <= 1
          /\ (pc[p] = "exit" /\ StepOf(p)) => commits'[p] = 0 /\ rows' = rows]_vars

\* A move_thread found its to_folder listed and is about to release the
\* lock without having committed.
ExactlyOneCommitWitness ==
    \E p \in Procs :
        /\ pc[p] = "exit" /\ call[p].op = "move_thread" /\ outcome[p] = "ok"
        /\ commits[p] = 0
        /\ lock[WithLock(p)] = p
        /\ ItemsIn(rows, call[p].thread, call[p].to) # {}

\* C14: a call that raises changes no committed row when it raises, and
\* what it had marked in the session before it raised (LeftOver) is not
\* written to the store by the commit of a later call on that session.
FailureAborts ==
    [][\A p \in Procs :
          /\ (Ends(p) /\ outcome'[p] # "ok") => rows' = rows
          /\ (pc[p] = "commit" /\ StepOf(p))
                => \A r \in rows : r.id \in LeftOver(p) => r \in rows']_vars

\* C15: with archive_thread, move_thread and delete_thread calls only, from
\* a store with at most one FolderItem per (thread, folder_name), the store
\* always has at most one FolderItem per (thread, folder_name).
UniquenessInvariant ==
    \A t \in Threads : \A f \in Folders : Cardinality(ItemsIn(rows, t, f)) <= 1

\* C16: a copy_thread or delete_thread for a thread of the namespace
\* succeeds only when the thread has exactly one FolderItem in the folder it
\* looks up; with none it raises NoResultFound, with two or more
\* MultipleResultsFound, and when it raises the store stays as it was.
ExactlyOneRequirement ==
    [][\A p \in Procs :
          (Ends(p) /\ call[p].op \in {"copy_thread", "delete_thread"} /\ OwnThread(p)) =>
              LET k == Cardinality(ItemsIn(rows, call[p].thread, call[p].from))
              IN  /\ outcome'[p] = "ok" => k = 1
                  /\ k = 0 => outcome'[p] = "NoResultFound"
                  /\ k >= 2 => outcome'[p] = "MultipleResultsFound"
                  /\ outcome'[p] # "ok" => rows' = rows]_vars

\* C17: distinct namespace ids have distinct lock files; a caller waiting at
\* its `with` can take its lock whenever no other call with the same
\* namespace id is inside its with block, whatever calls with other
\* namespace ids are doing; and a call inside its with block always has its
\* next step to take, so it runs to its end without waiting for anyone.
IndependentLockDomains ==
    /\ \A a, b \in Namespaces : a # b => db_write_lock(a) # db_write_lock(b)
    /\ \A p \in Procs :
          /\ (/\ pc[p] = "with"
              /\ \A q \in Procs \ {p} : InBody(q) => call[q].ns # call[p].ns)
                => ENABLED Acquire(p, MaxId)
          /\ InBody(p)
                => ENABLED (\/ ArchiveInbox(p) \/ ArchiveArchive(p) \/ MoveListings(p)
                            \/ CopyExisting(p) \/ DeleteItem(p) \/ Commit(p)
                            \/ Release(p))

\* Two calls with different namespace ids are inside their with blocks at
\* once, each holding its own lock file, both about to commit.
IndependentLockDomainsWitness ==
    \E p, q \in Procs :
        /\ pc[p] = "commit" /\ pc[q] = "commit"
        /\ call[p].ns # call[q].ns
        /\ lock[WithLock(p)] = p /\ lock[WithLock(q)] = q

\* C18: threads_for_folder needs no lock (a caller that is in none of the
\* four functions can always run it, whoever holds a lock), leaves the rows
\* and the locks as they are, and returns exactly the threads of the given
\* namespace that have a FolderItem of the given folder name in the store.
ReadOnlyLockFree ==
    [][/\ \A p \in Procs : pc[p] = "idle" => ENABLED ThreadsForFolder(p)
       /\ found' # found =>
            /\ rows' = rows /\ lock' = lock /\ nextId' = nextId /\ sess' = sess
            /\ found'.threads =
                 {t \in Threads : /\ ThreadNs(t) = found'.ns
                                  /\ ItemsIn(rows, t, found'.folder) # {}}]_vars

\* A caller holds the lock file of its call while it is inside the with
\* block, and no lock file otherwise: it asks for a lock only when it holds
\* none, and once per call.
OneLockOnce ==
    \A p \in Procs :
        {f \in LockFiles : lock[f] = p} = IF InBody(p) THEN {WithLock(p)} ELSE {}

\* A caller that waits for a lock can take it, or its holder can take a step.
NoDeadlock ==
    \A p \in Procs :
        pc[p] = "with" =>
            \/ ENABLED Acquire(p, MaxIdFair)
            \/ \E q \in Procs : lock[WithLock(p)] = q /\ ENABLED Step(q, MaxIdFair)

\* Another caller takes the lock file that p is waiting for.
Overtaken(p) ==
    /\ pc[p] = "with" /\ pc'[p] = "with"
    /\ lock[WithLock(p)] = Free /\ lock'[WithLock(p)] # Free

\* C19 as stated: one lock per call, asked for once and while holding none,
\* no deadlock, and under fair scheduling every call made gets its lock and
\* ends.
Progress ==
    /\ [](OneLockOnce /\ NoDeadlock)
    /\ \A p \in Procs : (pc[p] = "with") ~> (pc[p] = "done")

\* C19 amended: the same, for every call that is not overtaken at its lock
\* for ever by later calls with the same namespace id.
ProgressUnlessOvertaken ==
    /\ [](OneLockOnce /\ NoDeadlock)
    /\ \A p \in Procs :
          (<>[][~Overtaken(p)]_vars) => ((pc[p] = "with") ~> (pc[p] = "done"))

\* A caller waits at its `with` for a lock that another call holds.
ProgressWitness ==
    \E p, q \in Procs :
        /\ pc[p] = "with" /\ InBody(q) /\ call[q].ns = call[p].ns
        /\ lock[WithLock(p)] = q

\* The folders a call names: those of its arguments that it can write to.
FoldersNamed(c) ==
    CASE c.op = "archive_thread" -> {"inbox", "archive"}
      [] c.op = "move_thread" -> {c.from, c.to}
      [] c.op = "copy_thread" -> {c.to}
      [] c.op = "delete_thread" -> {c.from}

\* C20: the commit of a call changes only FolderItems of the thread given by
\* thread_id in the folders the call names: every other row is in the store
\* afterwards exactly if it was before, and no row changes its thread.
FrameOfOperations ==
    [][\A p \in Procs :
          (pc[p] = "commit" /\ StepOf(p)) =>
              /\ \A r \in rows \cup rows' :
                    (r.thread # call[p].thread \/ r.folder \notin FoldersNamed(call[p]))
                        => (r \in rows <=> r \in rows')
              /\ \A r \in rows : \A x \in rows' : x.id = r.id => x.thread = r.thread]_vars

====
